---- MODULE Spec2Model ----
(***************************************************************************)
(* The Perspective API shapes of src/src/index.ts as predicates over       *)
(* JavaScript values, and the data flow the shapes take part in: a caller  *)
(* builds a value declared as one of the shapes, serializes it to a JSON   *)
(* document, and the document is parsed back into a value.                 *)
(*                                                                         *)
(* An optional member `f?: T` is read as "absent, or a T", as the source's *)
(* "(optional)" comments say; a member holding undefined is not written to *)
(* a document, so on the wire it is an absent member.  A value of a shape  *)
(* may carry members the shape does not declare (structural typing).       *)
(***************************************************************************)
EXTENDS Integers, Sequences, FiniteSets, TLC

VARIABLES
    kind,    \* the shape the caller declares the value as
    val,     \* the value the caller is building
    phase,   \* "build", "sent" or "parsed"
    wire,    \* the JSON document last serialized
    parsed   \* the value parsed back from the document

vars == <<kind, val, phase, wire, parsed>>

----------------------------------------------------------------------------
(* Bounds of the model. *)

\* Finite numbers are 0..MaxNum (scores, thresholds and span offsets).
MaxNum == 2

----------------------------------------------------------------------------
(* JavaScript values.  Every kind keeps its payload in a field of its own. *)

Str(s) == [k |-> "string", s |-> s]
Num(n) == [k |-> "number", n |-> n]
\* NaN, Infinity and -Infinity are numbers with no finite payload.
NonFinite(w) == [k |-> "number", w |-> w]
Bool(b) == [k |-> "boolean", b |-> b]
Null == [k |-> "null"]
Undefined == [k |-> "undefined"]
Arr(a) == [k |-> "array", a |-> a]
Obj(o) == [k |-> "object", o |-> o]

NoMembers == [g \in {} |-> Null]
EmptyObject == Obj(NoMembers)

Put(o, f, v) == [g \in DOMAIN o \cup {f} |-> IF g = f THEN v ELSE o[g]]
Remove(o, f) == [g \in DOMAIN o \ {f} |-> o[g]]
With(v, f, x) == Obj(Put(v.o, f, x))
Without(v, f) == Obj(Remove(v.o, f))

----------------------------------------------------------------------------
(* The primitive types. *)

IsString(v) == v.k = "string"
IsNumber(v) == v.k = "number"
IsBoolean(v) == v.k = "boolean"
IsObject(v) == v.k = "object"
IsArray(v) == v.k = "array"
IsFinite(v) == IsNumber(v) /\ "n" \in DOMAIN v

Has(v, f) == IsObject(v) /\ f \in DOMAIN v.o
Keys(v) == IF IsObject(v) THEN DOMAIN v.o ELSE {}

----------------------------------------------------------------------------
(* The declared shapes. *)

\* Variant: the text type left open to any string, as ScoreType is.
TextTypeOpen(v) == IsString(v)
TextType(v) == IsString(v) /\ v.s \in {"PLAIN_TEXT", "HTML"}

Comment(v) ==
    /\ IsObject(v)
    /\ Has(v, "text") /\ IsString(v.o.text)
    /\ (Has(v, "type") => TextType(v.o.type))

ContextEntry(v) ==
    /\ IsObject(v)
    /\ (Has(v, "text") => IsString(v.o.text))
    /\ (Has(v, "type") => TextType(v.o.type))

IsContextEntryArray(v) == IsArray(v) /\ \A i \in 1..Len(v.a) : ContextEntry(v.a[i])
Context(v) ==
    /\ IsObject(v)
    /\ (Has(v, "entries") => IsContextEntryArray(v.o.entries))

\* Variant: the score type narrowed to the one named value.
ScoreTypeClosed(v) == IsString(v) /\ v.s = "PROBABILITY"
ScoreType(v) == (IsString(v) /\ v.s = "PROBABILITY") \/ IsString(v)

\* Variant: `scoreType` declared without "?".
RequestedAttributeConfigTyped(v) ==
    /\ IsObject(v)
    /\ Has(v, "scoreType") /\ ScoreType(v.o.scoreType)
    /\ (Has(v, "scoreThreshold") => IsNumber(v.o.scoreThreshold))
RequestedAttributeConfig(v) ==
    /\ IsObject(v)
    /\ (Has(v, "scoreType") => ScoreType(v.o.scoreType))
    /\ (Has(v, "scoreThreshold") => IsNumber(v.o.scoreThreshold))

IsStringArray(v) == IsArray(v) /\ \A i \in 1..Len(v.a) : IsString(v.a[i])
IsRequestedAttributes(v) == IsObject(v) /\ \A name \in DOMAIN v.o : RequestedAttributeConfig(v.o[name])

\* Variant: `requestedAttributes` declared with "?".
AnalyzeCommentRequestLax(v) ==
    /\ IsObject(v)
    /\ Has(v, "comment") /\ Comment(v.o.comment)
    /\ (Has(v, "context") => Context(v.o.context))
    /\ (Has(v, "requestedAttributes") => IsRequestedAttributes(v.o.requestedAttributes))
    /\ (Has(v, "languages") => IsStringArray(v.o.languages))
    /\ (Has(v, "doNotStore") => IsBoolean(v.o.doNotStore))
    /\ (Has(v, "clientToken") => IsString(v.o.clientToken))
    /\ (Has(v, "sessionId") => IsString(v.o.sessionId))
    /\ (Has(v, "communityId") => IsString(v.o.communityId))
    /\ (Has(v, "spanAnnotations") => IsBoolean(v.o.spanAnnotations))

IsStringOrUndefined(v) == IsString(v) \/ v.k = "undefined"
\* Variant: `clientToken?: string | undefined`.
AnalyzeCommentRequestUndefinedToken(v) ==
    /\ IsObject(v)
    /\ Has(v, "comment") /\ Comment(v.o.comment)
    /\ (Has(v, "context") => Context(v.o.context))
    /\ Has(v, "requestedAttributes") /\ IsRequestedAttributes(v.o.requestedAttributes)
    /\ (Has(v, "languages") => IsStringArray(v.o.languages))
    /\ (Has(v, "doNotStore") => IsBoolean(v.o.doNotStore))
    /\ (Has(v, "clientToken") => IsStringOrUndefined(v.o.clientToken))
    /\ (Has(v, "sessionId") => IsString(v.o.sessionId))
    /\ (Has(v, "communityId") => IsString(v.o.communityId))
    /\ (Has(v, "spanAnnotations") => IsBoolean(v.o.spanAnnotations))

AnalyzeCommentRequest(v) ==
    /\ IsObject(v)
    /\ Has(v, "comment") /\ Comment(v.o.comment)
    /\ (Has(v, "context") => Context(v.o.context))
    /\ Has(v, "requestedAttributes") /\ IsRequestedAttributes(v.o.requestedAttributes)
    /\ (Has(v, "languages") => IsStringArray(v.o.languages))
    /\ (Has(v, "doNotStore") => IsBoolean(v.o.doNotStore))
    /\ (Has(v, "clientToken") => IsString(v.o.clientToken))
    /\ (Has(v, "sessionId") => IsString(v.o.sessionId))
    /\ (Has(v, "communityId") => IsString(v.o.communityId))
    /\ (Has(v, "spanAnnotations") => IsBoolean(v.o.spanAnnotations))

Score(v) ==
    /\ IsObject(v)
    /\ Has(v, "value") /\ IsNumber(v.o.value)
    /\ (Has(v, "type") => ScoreType(v.o.type))

\* Variant: a span whose offsets are checked to be in order.
SpanScoreOrdered(v) ==
    /\ IsObject(v)
    /\ Has(v, "begin") /\ IsNumber(v.o.begin)
    /\ Has(v, "end") /\ IsNumber(v.o.end)
    /\ Has(v, "score") /\ Score(v.o.score)
    /\ IsFinite(v.o.begin) /\ IsFinite(v.o.end) => v.o.begin.n <= v.o.end.n

SpanScore(v) ==
    /\ IsObject(v)
    /\ Has(v, "begin") /\ IsNumber(v.o.begin)
    /\ Has(v, "end") /\ IsNumber(v.o.end)
    /\ Has(v, "score") /\ Score(v.o.score)

IsSpanScoreArray(v) == IsArray(v) /\ \A i \in 1..Len(v.a) : SpanScore(v.a[i])

\* Variant: `summaryScore` declared without "?".
AttributeScoreSummaryRequired(v) ==
    /\ IsObject(v)
    /\ Has(v, "summaryScore") /\ Score(v.o.summaryScore)
    /\ (Has(v, "spanScores") => IsSpanScoreArray(v.o.spanScores))

AttributeScore(v) ==
    /\ IsObject(v)
    /\ (Has(v, "summaryScore") => Score(v.o.summaryScore))
    /\ (Has(v, "spanScores") => IsSpanScoreArray(v.o.spanScores))

\* AnalyzeCommentResponse.attributeScores
IsResponseAttributeScores(v) == IsObject(v) /\ \A name \in DOMAIN v.o : AttributeScore(v.o[name])

AnalyzeCommentResponse(v) ==
    /\ IsObject(v)
    /\ (Has(v, "attributeScores") => IsResponseAttributeScores(v.o.attributeScores))
    /\ (Has(v, "languages") => IsStringArray(v.o.languages))
    /\ (Has(v, "clientToken") => IsString(v.o.clientToken))

\* Variant: the suggested scores mapped to a Score instead of an AttributeScore.
IsSuggestedScores(v) == IsObject(v) /\ \A name \in DOMAIN v.o : Score(v.o[name])

\* SuggestCommentScoreRequest.attributeScores
IsSuggestedAttributeScores(v) == IsObject(v) /\ \A name \in DOMAIN v.o : AttributeScore(v.o[name])

SuggestCommentScoreRequest(v) ==
    /\ IsObject(v)
    /\ Has(v, "comment") /\ Comment(v.o.comment)
    /\ (Has(v, "context") => Context(v.o.context))
    /\ Has(v, "attributeScores") /\ IsSuggestedAttributeScores(v.o.attributeScores)
    /\ (Has(v, "languages") => IsStringArray(v.o.languages))
    /\ (Has(v, "communityId") => IsString(v.o.communityId))
    /\ (Has(v, "clientToken") => IsString(v.o.clientToken))

\* Variant: `clientToken` declared without "?".
SuggestCommentScoreResponseStrict(v) ==
    /\ IsObject(v)
    /\ Has(v, "clientToken") /\ IsString(v.o.clientToken)

SuggestCommentScoreResponse(v) ==
    /\ IsObject(v)
    /\ (Has(v, "clientToken") => IsString(v.o.clientToken))

PerspectiveRequest(v) == AnalyzeCommentRequest(v) \/ SuggestCommentScoreRequest(v)
PerspectiveResponse(v) == AnalyzeCommentResponse(v) \/ SuggestCommentScoreResponse(v)

----------------------------------------------------------------------------
(* JSON documents, and the conversion between values and documents. *)

JNull == [j |-> "null"]
JBool(b) == [j |-> "bool", b |-> b]
JNum(n) == [j |-> "num", n |-> n]
JStr(s) == [j |-> "str", s |-> s]
JArr(a) == [j |-> "arr", a |-> a]
JObj(o) == [j |-> "obj", o |-> o]

\* A member holding undefined is left out of the document.
Serializable(v) == v.k # "undefined"

RECURSIVE Stringify(_)
Stringify(v) ==
    CASE v.k = "string" -> JStr(v.s)
      [] v.k = "number" -> IF "n" \in DOMAIN v THEN JNum(v.n) ELSE JNull
      [] v.k = "boolean" -> JBool(v.b)
      [] v.k = "null" -> JNull
      [] v.k = "undefined" -> JNull
      [] v.k = "array" -> JArr([i \in 1..Len(v.a) |-> Stringify(v.a[i])])
      [] v.k = "object" ->
            JObj([f \in {g \in DOMAIN v.o : Serializable(v.o[g])} |-> Stringify(v.o[f])])

RECURSIVE JSONParse(_)
JSONParse(d) ==
    CASE d.j = "str" -> Str(d.s)
      [] d.j = "num" -> Num(d.n)
      [] d.j = "bool" -> Bool(d.b)
      [] d.j = "null" -> Null
      [] d.j = "arr" -> Arr([i \in 1..Len(d.a) |-> JSONParse(d.a[i])])
      [] d.j = "obj" -> Obj([f \in DOMAIN d.o |-> JSONParse(d.o[f])])

----------------------------------------------------------------------------
(* The values a caller puts into the members of each shape. *)

Nums == {Num(n) : n \in 0..MaxNum}
NonFinites == {NonFinite("NaN"), NonFinite("Infinity")}

Hello == Str("hello")
TextValues == {Hello, Str(""), Num(0), Null}
TypeValues == {Str("PLAIN_TEXT"), Str("HTML"), Str("XML"), Bool(TRUE)}
ScoreTypeValues == {Str("PROBABILITY"), Str("STD_DEV_SCORE"), Str(""), Num(0)}

PlainComment == Obj([text |-> Hello])
HtmlComment == Obj([text |-> Hello, type |-> Str("HTML")])
TypeOnlyComment == Obj([type |-> Str("PLAIN_TEXT")])
CommentValues == {PlainComment, HtmlComment, TypeOnlyComment}

EntriesValues ==
    { Arr(<<>>),
      Arr(<<EmptyObject>>),
      Arr(<<Obj([text |-> Str("before")]), Obj([text |-> Str("after"), type |-> Str("HTML")])>>),
      Arr(<<Obj([text |-> Str("before"), type |-> Str("XML")])>>),
      Str("before") }
ContextValues == {Obj([entries |-> Arr(<<Obj([text |-> Str("before")])>>)]), Str("before")}

EmptyConfig == EmptyObject
FullConfig == Obj([scoreType |-> Str("PROBABILITY"), scoreThreshold |-> Num(MaxNum)])
RequestedAttributesValues ==
    { EmptyObject,
      Obj([TOXICITY |-> EmptyConfig]),
      Obj([TOXICITY |-> EmptyConfig, SPAM |-> FullConfig]),
      Obj([TOXICITY |-> Obj([scoreThreshold |-> NonFinite("Infinity")])]),
      Obj([TOXICITY |-> Obj([scoreType |-> Num(0)])]) }

LanguagesValues ==
    { Arr(<<Str("en"), Str("es")>>), Arr(<<Str("es"), Str("en")>>), Arr(<<Str("en"), Num(0)>>) }

ScoreValues ==
    {Obj([value |-> n]) : n \in Nums}
        \cup {Obj([value |-> Num(0), type |-> Str("PROBABILITY")]), EmptyObject}
Span(b, e) == Obj([begin |-> b, end |-> e, score |-> Obj([value |-> Num(0)])])
SpanScoresValues ==
    { Arr(<<>>),
      Arr(<<Span(Num(0), Num(MaxNum))>>),
      Arr(<<Span(Num(MaxNum), Num(0))>>),
      Arr(<<Span(Num(0), Num(0)), Obj([begin |-> Num(0), end |-> Num(1)])>>) }

ZeroSummary == Obj([summaryScore |-> Obj([value |-> Num(0)])])
AttributeScoresValues ==
    { EmptyObject,
      Obj([TOXICITY |-> EmptyObject]),
      Obj([TOXICITY |-> ZeroSummary]),
      Obj([TOXICITY |-> ZeroSummary, SPAM |-> Obj([spanScores |-> Arr(<<Span(Num(0), Num(1))>>)])]),
      Obj([INSULT |-> ZeroSummary]),
      Obj([TOXICITY |-> Obj([summaryScore |-> EmptyObject])]),
      Obj([TOXICITY |-> Str("high")]) }

Kinds ==
    { "Comment", "ContextEntry", "Context", "RequestedAttributeConfig",
      "AnalyzeCommentRequest", "Score", "SpanScore", "AttributeScore",
      "AnalyzeCommentResponse", "SuggestCommentScoreRequest",
      "SuggestCommentScoreResponse", "PerspectiveRequest" }

\* The members each shape declares.
Fields(t) ==
    CASE t = "Comment" -> {"text", "type"}
      [] t = "ContextEntry" -> {"text", "type"}
      [] t = "Context" -> {"entries"}
      [] t = "RequestedAttributeConfig" -> {"scoreType", "scoreThreshold"}
      [] t = "AnalyzeCommentRequest" ->
            { "comment", "context", "requestedAttributes", "languages", "doNotStore",
              "clientToken", "sessionId", "communityId", "spanAnnotations" }
      [] t = "Score" -> {"value", "type"}
      [] t = "SpanScore" -> {"begin", "end", "score"}
      [] t = "AttributeScore" -> {"summaryScore", "spanScores"}
      [] t = "AnalyzeCommentResponse" -> {"attributeScores", "languages", "clientToken"}
      [] t = "SuggestCommentScoreRequest" ->
            {"comment", "context", "attributeScores", "languages", "communityId", "clientToken"}
      [] t = "SuggestCommentScoreResponse" -> {"clientToken"}
      [] t = "PerspectiveRequest" -> {"comment", "requestedAttributes", "attributeScores"}

\* The members a shape declares without "?".
RequiredFields(t) ==
    CASE t = "Comment" -> {"text"}
      [] t = "AnalyzeCommentRequest" -> {"comment", "requestedAttributes"}
      [] t = "Score" -> {"value"}
      [] t = "SpanScore" -> {"begin", "end", "score"}
      [] t = "SuggestCommentScoreRequest" -> {"comment", "attributeScores"}
      [] OTHER -> {}
OptionalFields(t) == Fields(t) \ RequiredFields(t)

\* The shapes declared as interfaces (PerspectiveRequest is a union of two).
Interfaces == Kinds \ {"PerspectiveRequest"}

\* The values, of the declared type and not, a caller may give member f.
Candidates(t, f) ==
    CASE f = "text" -> TextValues
      [] f = "type" /\ t = "Score" -> ScoreTypeValues
      [] f = "type" -> TypeValues
      [] f = "entries" -> EntriesValues
      [] f = "scoreType" -> ScoreTypeValues
      [] f = "scoreThreshold" -> Nums \cup NonFinites \cup {Str("0.5")}
      [] f = "value" -> Nums \cup NonFinites \cup {Str("0")}
      [] f \in {"begin", "end"} -> Nums \cup {Str("0")}
      [] f = "score" -> ScoreValues
      [] f = "summaryScore" -> ScoreValues
      [] f = "spanScores" -> SpanScoresValues
      [] f = "comment" -> CommentValues
      [] f = "context" -> ContextValues
      [] f = "requestedAttributes" /\ t = "PerspectiveRequest" -> {EmptyObject, Str("TOXICITY")}
      [] f = "requestedAttributes" -> RequestedAttributesValues
      [] f = "attributeScores" /\ t = "PerspectiveRequest" -> {EmptyObject, Str("TOXICITY")}
      [] f = "attributeScores" -> AttributeScoresValues
      [] f = "languages" -> LanguagesValues
      [] f \in {"doNotStore", "spanAnnotations"} -> {Bool(TRUE), Str("true")}
      [] f = "clientToken" -> {Str("token-1"), Undefined}
      [] f = "sessionId" -> {Str("session-1"), Num(1)}
      [] f = "communityId" -> {Str("community-1"), Null}

IsShape(t, v) ==
    CASE t = "Comment" -> Comment(v)
      [] t = "ContextEntry" -> ContextEntry(v)
      [] t = "Context" -> Context(v)
      [] t = "RequestedAttributeConfig" -> RequestedAttributeConfig(v)
      [] t = "AnalyzeCommentRequest" -> AnalyzeCommentRequest(v)
      [] t = "Score" -> Score(v)
      [] t = "SpanScore" -> SpanScore(v)
      [] t = "AttributeScore" -> AttributeScore(v)
      [] t = "AnalyzeCommentResponse" -> AnalyzeCommentResponse(v)
      [] t = "SuggestCommentScoreRequest" -> SuggestCommentScoreRequest(v)
      [] t = "SuggestCommentScoreResponse" -> SuggestCommentScoreResponse(v)
      [] t = "PerspectiveRequest" -> PerspectiveRequest(v)

----------------------------------------------------------------------------
(* The data flow. *)

NoDocument == JNull
NoValue == Undefined

Init ==
    /\ kind \in Kinds
    /\ val = EmptyObject
    /\ phase = "build"
    /\ wire = NoDocument
    /\ parsed = NoValue

\* The caller gives member f of the value the value x.
SetField(f, x) ==
    /\ phase = "build"
    /\ f \in Fields(kind)
    /\ x \in Candidates(kind, f)
    /\ val' = With(val, f, x)
    /\ UNCHANGED <<kind, phase, wire, parsed>>

\* The caller leaves member f out of the value.
DeleteField(f) ==
    /\ phase = "build"
    /\ Has(val, f)
    /\ val' = Without(val, f)
    /\ UNCHANGED <<kind, phase, wire, parsed>>

\* The value is serialized to a JSON document.
Serialize ==
    /\ phase = "build"
    /\ wire' = Stringify(val)
    /\ phase' = "sent"
    /\ UNCHANGED <<kind, val, parsed>>

\* The document is parsed back into a value.
Parse ==
    /\ phase = "sent"
    /\ parsed' = JSONParse(wire)
    /\ phase' = "parsed"
    /\ UNCHANGED <<kind, val, wire>>

\* The values are discarded after use.
Discard ==
    /\ phase = "parsed"
    /\ kind' \in Kinds
    /\ val' = EmptyObject
    /\ phase' = "build"
    /\ wire' = NoDocument
    /\ parsed' = NoValue

AllFields == UNION {Fields(t) : t \in Kinds}

Next ==
    \/ \E f \in AllFields : \E x \in Candidates(kind, f) : SetField(f, x)
    \/ \E f \in AllFields : DeleteField(f)
    \/ Serialize
    \/ Parse
    \/ Discard

Spec == Init /\ [][Next]_vars

----------------------------------------------------------------------------
(* Properties of the shapes. *)

AttributeNames == {"TOXICITY", "SPAM", "INSULT"}

WithoutAll(v, S) == Obj([g \in DOMAIN v.o \ S |-> v.o[g]])

\* Every number in the value is finite.
RECURSIVE NumbersFinite(_)
NumbersFinite(v) ==
    CASE v.k = "number" -> "n" \in DOMAIN v
      [] v.k = "array" -> \A i \in 1..Len(v.a) : NumbersFinite(v.a[i])
      [] v.k = "object" -> \A f \in DOMAIN v.o : NumbersFinite(v.o[f])
      [] OTHER -> TRUE

\* The request has a comment with a string text and a requestedAttributes
\* mapping, and each other declared member is absent or of its declared type.
RequestAsDescribed(v) ==
    /\ Has(v, "comment")
    /\ Has(v.o.comment, "text")
    /\ v.o.comment.o.text.k = "string"
    /\ Has(v.o.comment, "type") => TextType(v.o.comment.o.type)
    /\ Has(v, "requestedAttributes")
    /\ IsRequestedAttributes(v.o.requestedAttributes)
    /\ Has(v, "context") => Context(v.o.context)
    /\ Has(v, "languages") => IsStringArray(v.o.languages)
    /\ Has(v, "doNotStore") => v.o.doNotStore.k = "boolean"
    /\ Has(v, "clientToken") => v.o.clientToken.k = "string"
    /\ Has(v, "sessionId") => v.o.sessionId.k = "string"
    /\ Has(v, "communityId") => v.o.communityId.k = "string"
    /\ Has(v, "spanAnnotations") => v.o.spanAnnotations.k = "boolean"

\* C1: a value is a valid AnalyzeCommentRequest exactly when it has a comment
\* with a string text and a requestedAttributes mapping and every other
\* declared member is absent or of its declared type; leaving out any set of
\* optional members (comment.type included) keeps a valid request valid, and a
\* value without comment, comment.text or requestedAttributes is never valid.
C1_RequestValidExactlyWhenRequiredPresent ==
    kind = "AnalyzeCommentRequest" =>
        /\ AnalyzeCommentRequest(val) <=> RequestAsDescribed(val)
        /\ AnalyzeCommentRequest(val) =>
              /\ \A S \in SUBSET (OptionalFields(kind) \cap Keys(val)) :
                    AnalyzeCommentRequest(WithoutAll(val, S))
              /\ AnalyzeCommentRequest(With(val, "comment", Without(val.o.comment, "type")))
        /\ \A f \in RequiredFields(kind) : ~AnalyzeCommentRequest(Without(val, f))
        /\ (Has(val, "comment") /\ IsObject(val.o.comment)) =>
              ~AnalyzeCommentRequest(With(val, "comment", Without(val.o.comment, "text")))

\* A valid request with every declared member present and no requested attribute.
C1_Witness ==
    /\ kind = "AnalyzeCommentRequest"
    /\ AnalyzeCommentRequest(val)
    /\ Keys(val) = Fields(kind)
    /\ Has(val.o.comment, "type")
    /\ val.o.requestedAttributes = EmptyObject

\* C2: in a requestedAttributes mapping the empty configuration is valid under
\* any key, also beside a key whose configuration sets both scoreType and
\* scoreThreshold, and it differs (as a value and as a document) from every
\* configuration that sets scoreType or scoreThreshold.
C2_EmptyConfigValidAlongsideFull ==
    /\ (kind = "AnalyzeCommentRequest" /\ Has(val, "requestedAttributes")
            /\ IsObject(val.o.requestedAttributes)) =>
          LET m == val.o.requestedAttributes IN
          \A name \in AttributeNames :
              /\ IsRequestedAttributes(With(m, name, EmptyConfig))
                    <=> \A other \in Keys(m) \ {name} : RequestedAttributeConfig(m.o[other])
              /\ AnalyzeCommentRequest(val) =>
                    AnalyzeCommentRequest(
                        With(val, "requestedAttributes", With(m, name, EmptyConfig)))
    /\ kind = "RequestedAttributeConfig" =>
          /\ val = EmptyConfig => RequestedAttributeConfig(val)
          /\ (Has(val, "scoreType") \/ Has(val, "scoreThreshold")) =>
                /\ val # EmptyConfig
                /\ Stringify(val) # Stringify(EmptyConfig)

\* A valid request whose mapping holds {} for one key and a full configuration
\* for another.
C2_Witness ==
    /\ kind = "AnalyzeCommentRequest"
    /\ AnalyzeCommentRequest(val)
    /\ val.o.requestedAttributes = Obj([TOXICITY |-> EmptyConfig, SPAM |-> FullConfig])

C5_ScoreTypeOpen ==
    /\ (kind = "RequestedAttributeConfig" /\ Has(val, "scoreType")
            /\ IsString(val.o.scoreType)) =>
          (RequestedAttributeConfig(val)
              <=> (Has(val, "scoreThreshold") => IsNumber(val.o.scoreThreshold)))
    /\ (kind = "Score" /\ Has(val, "type") /\ IsString(val.o.type)) =>
          (Score(val) <=> (Has(val, "value") /\ IsNumber(val.o.value)))

\* A valid Score whose type is a string the source never names.
C5_Witness ==
    /\ kind = "Score"
    /\ Score(val)
    /\ Has(val, "type")
    /\ val.o.type = Str("STD_DEV_SCORE")

\* C6: in a valid Comment and a valid ContextEntry, type is absent or one of
\* "PLAIN_TEXT" and "HTML"; any other type makes the value invalid, and a
\* Comment without text is invalid whatever its type.
C6_TextTypeClosed ==
    kind \in {"Comment", "ContextEntry"} =>
        /\ IsShape(kind, val) =>
              (~Has(val, "type") \/ val.o.type \in {Str("PLAIN_TEXT"), Str("HTML")})
        /\ (Has(val, "type") /\ val.o.type \notin {Str("PLAIN_TEXT"), Str("HTML")}) =>
              (~Comment(val) /\ ~ContextEntry(val))
        /\ ~Has(val, "text") => ~Comment(val)

\* A Comment with a text and the type "XML", which is not valid.
C6_Witness ==
    /\ kind = "Comment"
    /\ Has(val, "text")
    /\ val.o.text = Hello
    /\ Has(val, "type")
    /\ val.o.type = Str("XML")
    /\ ~Comment(val)

Swapped(v) == With(With(v, "begin", v.o.end), "end", v.o.begin)

\* C7 as stated: every valid SpanScore, alone or in AttributeScore.spanScores,
\* has begin <= end.
C7_SpanBeginAtMostEnd ==
    /\ (kind = "SpanScore" /\ SpanScore(val)
            /\ IsFinite(val.o.begin) /\ IsFinite(val.o.end)) =>
          val.o.begin.n <= val.o.end.n
    /\ (kind = "AttributeScore" /\ AttributeScore(val) /\ Has(val, "spanScores")) =>
          \A i \in 1..Len(val.o.spanScores.a) :
              val.o.spanScores.a[i].o.begin.n <= val.o.spanScores.a[i].o.end.n

\* C7: a SpanScore is valid exactly when begin and end are numbers and score is
\* a Score; the order of begin and end plays no part, so a valid SpanScore stays
\* valid with the two exchanged.
C7_SpanOrderNotConstrained ==
    kind = "SpanScore" =>
        /\ SpanScore(val)
              <=> /\ Has(val, "begin") /\ val.o.begin.k = "number"
                  /\ Has(val, "end") /\ val.o.end.k = "number"
                  /\ Has(val, "score") /\ Score(val.o.score)
        /\ (Has(val, "begin") /\ Has(val, "end")) =>
              (SpanScore(val) <=> SpanScore(Swapped(val)))

\* A valid SpanScore whose begin is greater than its end.
C7_Witness ==
    /\ kind = "SpanScore"
    /\ SpanScore(val)
    /\ IsFinite(val.o.begin)
    /\ IsFinite(val.o.end)
    /\ val.o.begin.n > val.o.end.n

\* C8: a mapping is a valid AnalyzeCommentResponse.attributeScores exactly when
\* it is a valid SuggestCommentScoreRequest.attributeScores; a
\* SuggestCommentScoreRequest without the member is invalid, and a valid
\* AnalyzeCommentResponse stays valid without it.
C8_AttributeScoresSameShape ==
    kind \in {"AnalyzeCommentResponse", "SuggestCommentScoreRequest"} =>
        /\ Has(val, "attributeScores") =>
              LET m == val.o.attributeScores IN
              /\ IsResponseAttributeScores(m) <=> IsSuggestedAttributeScores(m)
              /\ AnalyzeCommentResponse(Obj([attributeScores |-> m]))
                    <=> SuggestCommentScoreRequest(
                            Obj([comment |-> PlainComment, attributeScores |-> m]))
        /\ ~SuggestCommentScoreRequest(Without(val, "attributeScores"))
        /\ AnalyzeCommentResponse(val) =>
              AnalyzeCommentResponse(Without(val, "attributeScores"))

\* A valid SuggestCommentScoreRequest whose scores, for two attributes, are
\* also a valid response's.
C8_Witness ==
    /\ kind = "SuggestCommentScoreRequest"
    /\ SuggestCommentScoreRequest(val)
    /\ Cardinality(Keys(val.o.attributeScores)) = 2
    /\ AnalyzeCommentResponse(Obj([attributeScores |-> val.o.attributeScores]))

====
